---- MODULE Spec2Model ----
(***************************************************************************)
(* Search.binary_search_iterative (src/binary_search.py) as a state        *)
(* machine: one action per executed line of the function, the locals low,  *)
(* high, mid, mid_value as variables, and pc as the position in the code.  *)
(***************************************************************************)
EXTENDS Integers, Sequences, FiniteSets, TLC

\* ---- bounds of the checked input space ----
MaxLen == 5
MaxVal == 2

Values == 0..MaxVal

\* every list of length 0..MaxLen over Values, sorted or not
Lists == UNION {[1..k -> Values] : k \in 0..MaxLen}

\* the value returned by line 19
NOT_FOUND == -1

\* a local that has not been assigned yet (no index, element, sum of two
\* bounds or returned value of the function is ever -2)
Unbound == -2

VARIABLES
    sorted_list,  \* argument: the list (TLA+ sequence; Python index i is i+1)
    target,       \* argument: the value searched for
    low,          \* local, line 5
    high,         \* local, line 6
    sum,          \* the intermediate low + high of line 9
    mid,          \* local, line 9
    mid_value,    \* local, line 10
    result,       \* the returned value, lines 13 and 19
    pc,           \* "loop", "mid", "read", "compare", "found", "not_found", "raised"
    reads,        \* history: number of evaluations of sorted_list[mid]
    iters         \* history: number of times the loop body was entered

vars == <<sorted_list, target, low, high, sum, mid, mid_value, result, pc,
          reads, iters>>

\* ---- pure helpers, as the code computes them ----

\* len(sorted_list) - 1, line 6
InitHighOffByOne(list) == Len(list)
InitHigh(list) == Len(list) - 1

\* low + high, the operand of // in line 9
MidSum(lo, hi) == lo + hi

\* (low + high) // 2, line 9 (floor division)
MidCeil(lo, hi) == (MidSum(lo, hi) + 1) \div 2
MidLinear(lo, hi) == lo
Mid(lo, hi) == MidSum(lo, hi) \div 2

\* Python list indexing: sorted_list[i] is defined for -len <= i < len,
\* a negative i counts from the end, anything else raises IndexError
InRange(list, i) == -Len(list) <= i /\ i < Len(list)
GetItem(list, i) == IF i >= 0 THEN list[i + 1] ELSE list[Len(list) + i + 1]

\* ---- state machine ----

\* state after lines 5-6
Init ==
    /\ sorted_list \in Lists
    /\ target \in Values
    /\ low = 0
    /\ high = InitHigh(sorted_list)
    /\ sum = Unbound
    /\ mid = Unbound
    /\ mid_value = Unbound
    /\ result = Unbound
    /\ pc = "loop"
    /\ reads = 0
    /\ iters = 0

\* line 8, condition true: enter the body
WhileEnterOffByOne ==
    /\ pc = "loop"
    /\ low <= high + 1
    /\ pc' = "mid"
    /\ iters' = iters + 1
    /\ UNCHANGED <<sorted_list, target, low, high, sum, mid, mid_value,
                   result, reads>>
WhileEnter ==
    /\ pc = "loop"
    /\ low <= high
    /\ pc' = "mid"
    /\ iters' = iters + 1
    /\ UNCHANGED <<sorted_list, target, low, high, sum, mid, mid_value,
                   result, reads>>

\* line 8, condition false, then line 19: return -1
ReturnNotFoundLow ==
    /\ pc = "loop"
    /\ ~(low <= high)
    /\ pc' = "not_found"
    /\ result' = low
    /\ UNCHANGED <<sorted_list, target, low, high, sum, mid, mid_value,
                   reads, iters>>
ReturnNotFoundEarly ==
    /\ pc = "loop"
    /\ ~(low < high)
    /\ pc' = "not_found"
    /\ result' = NOT_FOUND
    /\ UNCHANGED <<sorted_list, target, low, high, sum, mid, mid_value,
                   reads, iters>>
ReturnNotFound ==
    /\ pc = "loop"
    /\ ~(low <= high)
    /\ pc' = "not_found"
    /\ result' = NOT_FOUND
    /\ UNCHANGED <<sorted_list, target, low, high, sum, mid, mid_value,
                   reads, iters>>

\* line 9: mid = (low + high) // 2
ComputeMid ==
    /\ pc = "mid"
    /\ sum' = MidSum(low, high)
    /\ mid' = Mid(low, high)
    /\ pc' = "read"
    /\ UNCHANGED <<sorted_list, target, low, high, mid_value, result,
                   reads, iters>>

\* line 10: mid_value = sorted_list[mid]
ReadMid ==
    /\ pc = "read"
    /\ reads' = reads + 1
    /\ IF InRange(sorted_list, mid)
         THEN /\ mid_value' = GetItem(sorted_list, mid)
              /\ pc' = "compare"
         ELSE /\ mid_value' = mid_value
              /\ pc' = "raised"
    /\ UNCHANGED <<sorted_list, target, low, high, sum, mid, result, iters>>

\* lines 12-13: mid_value == target, return mid
ReturnFoundShifted ==
    /\ pc = "compare"
    /\ mid_value = target
    /\ pc' = "found"
    /\ result' = mid + 1
    /\ UNCHANGED <<sorted_list, target, low, high, sum, mid, mid_value,
                   reads, iters>>
ReturnFound ==
    /\ pc = "compare"
    /\ mid_value = target
    /\ pc' = "found"
    /\ result' = mid
    /\ UNCHANGED <<sorted_list, target, low, high, sum, mid, mid_value,
                   reads, iters>>

\* lines 14-15: mid_value < target, low = mid + 1
GoRightSwapped ==
    /\ pc = "compare"
    /\ mid_value # target
    /\ mid_value < target
    /\ high' = mid - 1
    /\ pc' = "loop"
    /\ UNCHANGED <<sorted_list, target, low, sum, mid, mid_value, result,
                   reads, iters>>
GoRight ==
    /\ pc = "compare"
    /\ mid_value # target
    /\ mid_value < target
    /\ low' = mid + 1
    /\ pc' = "loop"
    /\ UNCHANGED <<sorted_list, target, high, sum, mid, mid_value, result,
                   reads, iters>>

\* lines 16-17: otherwise, high = mid - 1
GoLeftLowBound ==
    /\ pc = "compare"
    /\ mid_value # target
    /\ ~(mid_value < target)
    /\ low' = mid + 1
    /\ pc' = "loop"
    /\ UNCHANGED <<sorted_list, target, high, sum, mid, mid_value, result,
                   reads, iters>>
GoLeftMutating ==
    /\ pc = "compare"
    /\ mid_value # target
    /\ ~(mid_value < target)
    /\ high' = mid - 1
    /\ sorted_list' = [sorted_list EXCEPT ![mid + 1] = target]
    /\ pc' = "loop"
    /\ UNCHANGED <<target, low, sum, mid, mid_value, result, reads, iters>>
GoLeft ==
    /\ pc = "compare"
    /\ mid_value # target
    /\ ~(mid_value < target)
    /\ high' = mid - 1
    /\ pc' = "loop"
    /\ UNCHANGED <<sorted_list, target, low, sum, mid, mid_value, result,
                   reads, iters>>

Next ==
    \/ WhileEnter
    \/ ReturnNotFound
    \/ ComputeMid
    \/ ReadMid
    \/ ReturnFound
    \/ GoRight
    \/ GoLeft

Spec == Init /\ [][Next]_vars

\* the function runs on one thread and is never suspended: an enabled
\* step is eventually taken
FairSpec == Spec /\ WF_vars(Next)

\* ---- vocabulary of the properties ----

N == Len(sorted_list)

IsSorted(list) == \A i \in 1..Len(list) : \A j \in i..Len(list) : list[i] <= list[j]

Present == \E k \in 1..N : sorted_list[k] = target

Terminated == pc \in {"found", "not_found"}

RECURSIVE Log2Floor(_)
Log2Floor(n) == IF n <= 1 THEN 0 ELSE 1 + Log2Floor(n \div 2)

MaxIterations(n) == IF n = 0 THEN 0 ELSE Log2Floor(n) + 1

\* C1: on a sorted list that holds the target, the returned value is an
\* index j in 0..len-1 with sorted_list[j] == target, never -1.
C1_FoundWhenPresent ==
    (Terminated /\ IsSorted(sorted_list) /\ Present) =>
        /\ result \in 0..(N - 1)
        /\ sorted_list[result + 1] = target
        /\ result # NOT_FOUND

C1_Witness ==
    /\ pc = "found"
    /\ IsSorted(sorted_list)
    /\ N >= 3
    /\ Cardinality({k \in 1..N : sorted_list[k] = target}) >= 2
    /\ iters >= 2

\* C2: on a sorted list that does not hold the target, the returned value
\* is -1, never an index.
C2_NotFoundWhenAbsent ==
    (Terminated /\ IsSorted(sorted_list) /\ ~Present) =>
        /\ pc = "not_found"
        /\ result = NOT_FOUND

C2_Witness ==
    /\ pc = "not_found"
    /\ IsSorted(sorted_list)
    /\ ~Present
    /\ N >= 3
    /\ iters >= 2

\* C3: on the empty list the search starts with low = 0 and high = -1,
\* never enters the loop body, reads no element, and returns -1.
C3_EmptyList ==
    (N = 0) =>
        /\ low = 0
        /\ high = -1
        /\ pc \in {"loop", "not_found"}
        /\ iters = 0
        /\ reads = 0
        /\ (pc = "not_found" => result = NOT_FOUND)

C3_Witness == N = 0 /\ pc = "not_found" /\ result = NOT_FOUND

\* C4: for any list, sorted or not, the returned value is either an index
\* in 0..len-1 whose element equals the target (returned by line 13) or -1
\* (returned by line 19); the two are distinct and nothing else is returned.
C4_ResultRange ==
    Terminated =>
        \/ /\ pc = "found"
           /\ result \in 0..(N - 1)
           /\ sorted_list[result + 1] = target
           /\ result # NOT_FOUND
        \/ /\ pc = "not_found"
           /\ result = NOT_FOUND

C4_Witness == pc = "found" /\ ~IsSorted(sorted_list) /\ result >= 1

\* C5: the search terminates; the loop body is entered at most
\* floor(log2(n)) + 1 times for n >= 1 and never for n = 0; every iteration
\* that does not return shrinks the interval high - low + 1 to at most half
\* of its size, rounded down, and strictly.
C5_IterationBound ==
    /\ iters <= MaxIterations(N)
    /\ reads <= iters

C5_Shrinks ==
    (pc = "compare" /\ pc' = "loop") =>
        /\ (high' - low' + 1) <= (high - low + 1) \div 2
        /\ (high' - low' + 1) < (high - low + 1)

C5_LogTermination ==
    /\ <>(pc \in {"found", "not_found"})
    /\ []C5_IterationBound
    /\ [][C5_Shrinks]_vars

C5_Witness == pc = "not_found" /\ N = 4 /\ iters = 3

\* C6: no step of the search changes the list (its length or any element)
\* or the target; only the locals change.
C6_InputsUnchanged ==
    [][sorted_list' = sorted_list /\ target' = target]_vars

C6_Witness == pc = "loop" /\ iters >= 1 /\ high < N - 1

\* C7: for any list, sorted or not, no read of sorted_list[mid] is out of
\* range or uses a negative index: at the read low <= mid <= high and
\* 0 <= mid <= len-1, so no IndexError is raised.
C7_ReadsInRange ==
    /\ pc # "raised"
    /\ (pc \in {"read", "compare"} =>
            /\ low <= mid /\ mid <= high
            /\ 0 <= mid /\ mid <= N - 1)

C7_Witness == pc = "compare" /\ ~IsSorted(sorted_list) /\ mid = N - 1 /\ iters >= 2

\* C8 as stated: the midpoint is computed so that no intermediate value
\* exceeds high, and mid = floor((low + high) / 2).
C8_NoIntermediateAboveHigh ==
    (pc = "read") =>
        /\ sum <= high
        /\ mid <= high
        /\ mid = (low + high) \div 2

\* C8 amended: line 9 computes (low + high) // 2; the intermediate low + high
\* may exceed high but is at most 2 * (len - 1), and the value equals the
\* guarded form low + (high - low) // 2, with low <= mid <= high.
C8_MidpointValue ==
    (pc = "read") =>
        /\ sum = low + high
        /\ sum <= 2 * (N - 1)
        /\ mid = low + ((high - low) \div 2)
        /\ 2 * mid <= low + high /\ low + high <= 2 * mid + 1
        /\ low <= mid /\ mid <= high

C8_Witness == pc = "read" /\ sum > high /\ low >= 1 /\ low < high

\* C9: on a sorted list, at every evaluation of the loop condition
\* 0 <= low <= high + 1 <= len, every element below low is < target, every
\* element above high is > target, hence every position holding the target
\* lies in low..high.
C9_LoopInvariant ==
    (pc = "loop" /\ IsSorted(sorted_list)) =>
        /\ 0 <= low /\ low <= high + 1 /\ high + 1 <= N
        /\ \A k \in 0..(N - 1) : k < low => sorted_list[k + 1] < target
        /\ \A k \in 0..(N - 1) : k > high => sorted_list[k + 1] > target
        /\ \A k \in 0..(N - 1) : sorted_list[k + 1] = target => (low <= k /\ k <= high)

C9_Witness ==
    /\ pc = "loop"
    /\ IsSorted(sorted_list)
    /\ Present
    /\ low >= 1
    /\ high < N - 1
    /\ low <= high

\* C10: found is entered only from a searching state with
\* sorted_list[mid] == target and carries that mid; not_found is entered only
\* from a state with low > high; a terminal state is never left and result,
\* low and high never change in it.
C10_Step ==
    /\ (pc # "found" /\ pc' = "found") =>
            /\ pc = "compare"
            /\ GetItem(sorted_list, mid) = target
            /\ result' = mid
    /\ (pc # "not_found" /\ pc' = "not_found") =>
            /\ pc = "loop"
            /\ low > high
    /\ (pc \in {"found", "not_found"}) =>
            /\ pc' = pc
            /\ result' = result
            /\ low' = low
            /\ high' = high

C10_TerminalAbsorbing == [][C10_Step]_vars

C10_Witness == pc = "found" /\ result = mid /\ iters >= 2

====
